---- MODULE Spec2Model ----
(***************************************************************************)
(* A model of libForms: the FormSettings registry, the OptionForm          *)
(* selection protocol and the InputForm acquisition loop of src/Form.py,   *)
(* and the earlier FormSettings class of src/FormSettings.py.              *)
(*                                                                         *)
(* Python values are records [t, n, s]: t is the type tag, n the numeric   *)
(* payload (an int, a bool as 0/1, a float in tenths, a callable's         *)
(* co_argcount), s the text payload (a str's characters, a callable's      *)
(* name).  Strings are sequences of one-character strings, so that         *)
(* concatenation and the substring test are computed, not assumed.         *)
(***************************************************************************)
EXTENDS Integers, Sequences, FiniteSets, TLC

(***************************************************************************)
(* Bounds of the model.                                                    *)
(***************************************************************************)
MaxCalls == 3
MaxEntries == 3
MaxInputs == 3
MaxFields == 2

(***************************************************************************)
(* Python values.                                                          *)
(***************************************************************************)
PyNone == [t |-> "none", n |-> 0, s |-> <<>>]
PyBool(b) == [t |-> "bool", n |-> IF b THEN 1 ELSE 0, s |-> <<>>]
PyInt(i) == [t |-> "int", n |-> i, s |-> <<>>]
PyFloat(tenths) == [t |-> "float", n |-> tenths, s |-> <<>>]
PyStr(chars) == [t |-> "str", n |-> 0, s |-> chars]
PyFn(name, argcount) == [t |-> "fn", n |-> argcount, s |-> name]

\* bool(v): Python truthiness.
Truthy(v) ==
    CASE v.t = "none" -> FALSE
      [] v.t \in {"bool", "int", "float"} -> v.n # 0
      [] v.t = "str" -> v.s # <<>>
      [] OTHER -> TRUE

\* isinstance(v, int): bool is a subclass of int.
IsInt(v) == v.t \in {"int", "bool"}
IsBool(v) == v.t = "bool"
IsStr(v) == v.t = "str"
Callable(v) == v.t = "fn"

\* sub in s, for strings as character sequences.
Contains(sub, s) ==
    \E i \in 0..(Len(s) - Len(sub)) : SubSeq(s, i + 1, i + Len(sub)) = sub

\* colorama's Style.RESET_ALL and Fore.RED, one escape sequence each.
RESET_ALL == <<"\\x1b[0m">>
RED == <<"\\x1b[31m">>

\* The reserved marker.
SEP == <<"S", "E", "P", "A", "R", "A", "T", "O", "R">>

(***************************************************************************)
(* FormSettings (src/Form.py).                                             *)
(***************************************************************************)
Setting == {"HEADER", "SEPARATOR", "DEFAULT_CALLBACK", "CLEAR_FORM_AFTER_ACTION",
            "CLEAR_FORM_AFTER_FORM", "CLEAN_FAILED_RESPONSES", "ERROR_COLOUR",
            "OPTIONS_TEXT"}

\* The default header, a row of dots: three of them stand for the row.
DefaultHeader == PyStr(<<".", ".", ".">>)

FormSettingsInit ==
    [k \in Setting |->
        CASE k = "HEADER" -> DefaultHeader
          [] k = "SEPARATOR" -> PyStr(<<>>)
          [] k = "DEFAULT_CALLBACK" -> PyNone
          [] k = "CLEAR_FORM_AFTER_ACTION" -> PyBool(FALSE)
          [] k = "CLEAR_FORM_AFTER_FORM" -> PyBool(FALSE)
          [] k = "CLEAN_FAILED_RESPONSES" -> PyInt(0)
          [] k = "ERROR_COLOUR" -> PyStr(RED)
          [] k = "OPTIONS_TEXT" -> PyStr(<<"O", "p", "t", "i", "o", "n", "s">>)]

\* The earlier class: four string keys.
LegacySetting == {"header", "default_callback", "clear_form_after_action",
                  "clear_form_after_form"}

LegacySettingsInit ==
    [k \in LegacySetting |->
        CASE k = "header" -> DefaultHeader
          [] k = "default_callback" -> PyNone
          [] k = "clear_form_after_action" -> PyBool(FALSE)
          [] k = "clear_form_after_form" -> PyBool(FALSE)]

VARIABLES
    impl,           \* which FormSettings class the registry object is
    settings,       \* FormSettings.settings
    lastCall,       \* the most recent registry call and its outcome
    nCalls,         \* how many registry calls were made
    \* ---- OptionForm
    options,        \* OptionForm.options: the entries, in insertion order
    default_option, \* OptionForm.default_option
    separatorCount, \* Form.separatorCount of the OptionForm
    lastAdd,        \* the most recent addOption/addSeparator call and its outcome
    pc,             \* where OptionForm.send stands
    optionsLocal,   \* the local `options` of send: the selectable names
    choice,         \* the local `choice` of send
    invalid,        \* the local `invalid` of send
    error,          \* the parameter `error` of send
    chosen_option,  \* the local `chosen_option` of send
    out,            \* what send did since it last read a line
    nInputs,        \* lines read by this top-level send
    invalids,       \* lines of this send that did not resolve the choice
    renders,        \* how often this top-level send rendered the form
    \* ---- InputForm
    inputs,         \* InputForm.inputs: the entries, in insertion order
    inputSeparatorCount, \* Form.separatorCount of the InputForm
    lastReg,        \* the most recent register/addSeparator call and its outcome
    nRegs,          \* register/addSeparator calls made on this InputForm
    ipc,            \* where InputForm.send stands
    cur,            \* the position in inputs of the field being prompted
    iout,           \* what InputForm.send did since it last read a line
    raised,         \* the exception that ended the last InputForm.send, with its message
    result,         \* what the last InputForm.send returned
    nLines          \* lines read by this InputForm

settingsVars == <<impl, settings, lastCall, nCalls>>
formVars == <<options, default_option, separatorCount, lastAdd>>
sendVars == <<pc, optionsLocal, choice, invalid, error, chosen_option, out,
              nInputs, invalids, renders>>
optionVars == <<formVars, sendVars>>
inputFormVars == <<inputs, inputSeparatorCount, lastReg, nRegs>>
inputSendVars == <<ipc, cur, iout, raised, result, nLines>>
inputVars == <<inputFormVars, inputSendVars>>
vars == <<settingsVars, optionVars, inputVars>>

\* The check both operations start with.
ValidSetting(reg, setting) == setting \in Setting /\ setting \in DOMAIN reg

\* editSetting without its normalisation: every accepted value stored as given.
EditOutcome_AsGiven(setting, newVal) ==
    IF setting = "DEFAULT_CALLBACK" /\ ~Callable(newVal)
    THEN [err |-> "ValueError", val |-> newVal]
    ELSE IF setting \in {"HEADER", "SEPARATOR"} /\ ~IsStr(newVal)
    THEN [err |-> "ValueError", val |-> newVal]
    ELSE IF setting \in {"CLEAR_FORM_AFTER_ACTION", "CLEAR_FORM_AFTER_FORM"}
            /\ ~IsBool(newVal)
    THEN [err |-> "ValueError", val |-> newVal]
    ELSE IF setting = "CLEAN_FAILED_RESPONSES" /\ Truthy(newVal) /\ ~IsInt(newVal)
    THEN [err |-> "ValueError", val |-> newVal]
    ELSE [err |-> "none", val |-> newVal]

\* The per-key validation of editSetting: the error raised, or the value stored.
EditOutcome(setting, newVal) ==
    IF setting = "DEFAULT_CALLBACK" /\ ~Callable(newVal)
    THEN [err |-> "ValueError", val |-> newVal]
    ELSE IF setting \in {"HEADER", "SEPARATOR"}
    THEN IF ~IsStr(newVal)
         THEN [err |-> "ValueError", val |-> newVal]
         ELSE [err |-> "none", val |-> PyStr(newVal.s \o RESET_ALL)]
    ELSE IF setting \in {"CLEAR_FORM_AFTER_ACTION", "CLEAR_FORM_AFTER_FORM"}
            /\ ~IsBool(newVal)
    THEN [err |-> "ValueError", val |-> newVal]
    ELSE IF setting = "CLEAN_FAILED_RESPONSES"
    THEN IF Truthy(newVal) /\ ~IsInt(newVal)
         THEN [err |-> "ValueError", val |-> newVal]
         ELSE [err |-> "none", val |-> IF Truthy(newVal) THEN newVal ELSE PyInt(0)]
    ELSE IF setting = "OPTIONS_TEXT"
    THEN IF ~IsStr(newVal) \/ newVal = PyStr(<<>>)
         THEN [err |-> "none", val |-> PyNone]
         ELSE [err |-> "none", val |-> PyStr(newVal.s \o RESET_ALL)]
    ELSE [err |-> "none", val |-> newVal]

\* editSetting that stores before it validates the value.
EditResult_StoreFirst(reg, setting, newVal) ==
    IF ~ValidSetting(reg, setting)
    THEN [reg |-> reg, err |-> "ValueError"]
    ELSE LET o == EditOutcome(setting, newVal)
         IN  [reg |-> [reg EXCEPT ![setting] = o.val], err |-> o.err]

\* FormSettings.editSetting as a function of the registry.
EditResult(reg, setting, newVal) ==
    IF ~ValidSetting(reg, setting)
    THEN [reg |-> reg, err |-> "ValueError"]
    ELSE LET o == EditOutcome(setting, newVal)
         IN  IF o.err # "none"
             THEN [reg |-> reg, err |-> o.err]
             ELSE [reg |-> [reg EXCEPT ![setting] = o.val], err |-> "none"]

\* FormSettings.getSetting as a function of the registry.
GetResult(reg, setting) ==
    IF ~ValidSetting(reg, setting)
    THEN [err |-> "ValueError", val |-> PyNone]
    ELSE [err |-> "none", val |-> reg[setting]]

\* A call record.  prev is TRUE for a read that directly follows an accepted
\* write of the same key, whose argument is then kept in val.
Call(op, key, val, err, ret, prev) ==
    [err |-> err, val |-> val, op |-> op, key |-> key, ret |-> ret, prev |-> prev]

editSetting(setting, newVal) ==
    /\ impl = "Form"
    /\ nCalls < MaxCalls
    /\ nCalls' = nCalls + 1
    /\ LET r == EditResult(settings, setting, newVal)
       IN  /\ settings' = r.reg
           /\ lastCall' = Call("write", setting, newVal, r.err, PyNone, FALSE)
    /\ UNCHANGED <<impl, optionVars, inputVars>>

getSetting(setting) ==
    /\ impl = "Form"
    /\ nCalls < MaxCalls
    /\ nCalls' = nCalls + 1
    /\ LET r == GetResult(settings, setting)
           follows == /\ lastCall.op = "write"
                      /\ lastCall.err = "none"
                      /\ lastCall.key = setting
       IN  lastCall' = Call("read", setting,
                            IF follows THEN lastCall.val ELSE PyNone,
                            r.err, r.val, follows)
    /\ UNCHANGED <<impl, settings, optionVars, inputVars>>

\* FormSettings.editSetting of src/FormSettings.py.
LegacyEditResult(reg, setting, newVal) ==
    IF setting \notin DOMAIN reg
    THEN [reg |-> reg, err |-> "ValueError"]
    ELSE LET v == IF newVal = PyNone THEN reg[setting] ELSE newVal
         IN  IF setting = "default_callback" /\ ~Callable(v)
             THEN [reg |-> reg, err |-> "ValueError"]
             ELSE IF setting \in {"clear_form_after_action", "clear_form_after_form"}
                     /\ ~IsBool(v)
             THEN [reg |-> reg, err |-> "ValueError"]
             ELSE [reg |-> [reg EXCEPT ![setting] = v], err |-> "none"]

legacyEditSetting(setting, newVal) ==
    /\ impl = "FormSettings"
    /\ nCalls < MaxCalls
    /\ nCalls' = nCalls + 1
    /\ LET r == LegacyEditResult(settings, setting, newVal)
       IN  /\ settings' = r.reg
           /\ lastCall' = Call("write", setting, newVal, r.err, PyNone, FALSE)
    /\ UNCHANGED <<impl, optionVars, inputVars>>

\* The properties header, default_callback, clear_form_after_action,
\* clear_form_after_form of src/FormSettings.py.
legacyProperty(setting) ==
    /\ impl = "FormSettings"
    /\ setting \in LegacySetting
    /\ nCalls < MaxCalls
    /\ nCalls' = nCalls + 1
    /\ lastCall' = Call("read", setting, PyNone, "none", settings[setting], FALSE)
    /\ UNCHANGED <<impl, settings, optionVars, inputVars>>

(***************************************************************************)
(* Text helpers.                                                           *)
(***************************************************************************)
Digit == <<"0", "1", "2", "3", "4", "5", "6", "7", "8", "9">>

DigitVal(c) == (CHOOSE i \in 1..Len(Digit) : Digit[i] = c) - 1

IsDigit(c) == \E i \in 1..Len(Digit) : Digit[i] = c

\* str(n) of an f-string, n >= 0.
RECURSIVE IntToStr(_)
IntToStr(n) ==
    IF n < Len(Digit)
    THEN <<Digit[n + 1]>>
    ELSE IntToStr(n \div Len(Digit)) \o <<Digit[(n % Len(Digit)) + 1]>>

RECURSIVE DigitsVal(_)
DigitsVal(ds) ==
    IF ds = <<>>
    THEN 0
    ELSE Len(Digit) * DigitsVal(SubSeq(ds, 1, Len(ds) - 1)) + DigitVal(ds[Len(ds)])

\* int(line): an optional sign and decimal digits; anything else is a ValueError.
ParseInt(line) ==
    LET signed == line # <<>> /\ line[1] \in {"-", "+"}
        ds == IF signed THEN Tail(line) ELSE line
    IN  IF ds = <<>> \/ \E i \in 1..Len(ds) : ~IsDigit(ds[i])
        THEN [n |-> 0, ok |-> FALSE]
        ELSE [n |-> IF signed /\ line[1] = "-" THEN 0 - DigitsVal(ds) ELSE DigitsVal(ds),
              ok |-> TRUE]

\* list.index, 1-based; 0 when absent (Python raises ValueError).
IndexOf(seq, x) ==
    IF \E i \in 1..Len(seq) : seq[i] = x
    THEN CHOOSE i \in 1..Len(seq) : seq[i] = x /\ \A j \in 1..(i - 1) : seq[j] # x
    ELSE 0

(***************************************************************************)
(* OptionForm (src/Form.py).                                               *)
(***************************************************************************)
\* What send does, as events: e the kind, s a name or a text, v the callable
\* called, a the number of arguments passed.
Ev(e, s, v, a) == [s |-> s, v |-> v, e |-> e, a |-> a]
ClearEv == Ev("clear", <<>>, PyNone, 0)
RenderEv == Ev("render", <<>>, PyNone, 0)
PrintEv(text) == Ev("print", text, PyNone, 0)
InputEv(line) == Ev("input", line, PyNone, 0)
CallEv(owner, fn, nargs) == Ev("call", owner, fn, nargs)
SepTextEv(owner, fn) == Ev("septext", owner, fn, 0)

INVALID_CHOICE == <<"Invalid choice, please try again.">>
VALID_NUMBER == <<"Please enter a valid number.">>
DEFAULT_CALLBACK_OWNER == <<"DEFAULT_CALLBACK">>

\* The lambda addSeparator registers: it returns the separator's text.
SepLambda(text) ==
    PyFn(<<"lambda">> \o (IF Truthy(text) THEN text.s \o RESET_ALL ELSE <<>>), 0)

\* What a callable returns: the separator lambda its text, a caller's callback None.
CallResult(fn) ==
    IF fn.s # <<>> /\ fn.s[1] = "lambda" THEN PyStr(Tail(fn.s)) ELSE PyNone

Entry(name, callback, tooltip) == [name |-> name, tooltip |-> tooltip, cb |-> callback]

HasName(opts, name) == \E i \in 1..Len(opts) : opts[i].name = name

\* dict[name] = e: a known key keeps its place, a new key goes last.
DictSet(opts, e) ==
    IF HasName(opts, e.name)
    THEN [i \in 1..Len(opts) |-> IF opts[i].name = e.name THEN e ELSE opts[i]]
    ELSE Append(opts, e)

DictGet(opts, name) == opts[CHOOSE i \in 1..Len(opts) : opts[i].name = name]

\* The guards of addOption: the exception raised, or "none".
AddOptionError(name, callback, tooltip) ==
    IF Contains(SEP, name) /\ ~IsStr(tooltip)
    THEN "TypeError"
    ELSE IF Contains(SEP, name) /\ ~Contains(SEP, tooltip.s)
    THEN "ReservedName"
    ELSE IF ~Callable(callback)
    THEN "NotCallable"
    ELSE "none"

\* OptionForm.addOption as a function of the form.
AddOptionResult(opts, dflt, name, callback, tooltip, isDefault) ==
    LET err == AddOptionError(name, callback, tooltip)
    IN  IF err # "none"
        THEN [options |-> opts, default_option |-> dflt, err |-> err]
        ELSE [options |-> DictSet(opts, Entry(name, callback, tooltip)),
              default_option |-> IF isDefault THEN PyStr(name) ELSE dflt,
              err |-> "none"]

Add(op, name, tooltip, err) == [name |-> name, err |-> err, op |-> op, tooltip |-> tooltip]
NoAdd == Add("none", <<>>, PyNone, "none")

Quiescent == pc \in {"idle", "returned", "raised"}

\* Editing the form drops the record of the send before it.
ForgetSend ==
    /\ pc' = "idle"
    /\ optionsLocal' = <<>>
    /\ choice' = PyNone
    /\ invalid' = PyNone
    /\ error' = PyNone
    /\ chosen_option' = PyNone
    /\ out' = <<>>
    /\ nInputs' = 0
    /\ invalids' = 0
    /\ renders' = 0

addOption(name, callback, tooltip, isDefault) ==
    /\ Quiescent
    /\ HasName(options, name) \/ Len(options) < MaxEntries
    /\ LET r == AddOptionResult(options, default_option, name, callback, tooltip,
                                isDefault)
       IN  /\ options' = r.options
           /\ default_option' = r.default_option
           /\ lastAdd' = Add("addOption", name, tooltip, r.err)
    /\ ForgetSend
    /\ UNCHANGED <<separatorCount, settingsVars, inputVars>>

addSeparator(text) ==
    /\ Quiescent
    /\ Len(options) < MaxEntries
    /\ separatorCount' = separatorCount + 1
    /\ LET name == SEP \o IntToStr(separatorCount')
           r == AddOptionResult(options, default_option, name, SepLambda(text),
                                PyStr(SEP), FALSE)
       IN  /\ options' = r.options
           /\ default_option' = r.default_option
           /\ lastAdd' = Add("addSeparator", name, PyStr(SEP), r.err)
    /\ ForgetSend
    /\ UNCHANGED <<settingsVars, inputVars>>

\* The listing loop of send: separators show the text their callback returns,
\* the other entries are numbered and collected.
RECURSIVE RenderEntries(_, _, _, _)
RenderEntries(opts, i, names, evs) ==
    IF i > Len(opts)
    THEN [out |-> evs, err |-> "none", names |-> names]
    ELSE LET e == opts[i]
         IN  IF Contains(SEP, e.name)
             THEN IF e.cb.n # 0
                  THEN [out |-> evs, err |-> "TypeError", names |-> names]
                  ELSE IF ~IsStr(CallResult(e.cb))
                  THEN [out |-> Append(evs, SepTextEv(e.name, e.cb)), err |-> "TypeError",
                        names |-> names]
                  ELSE RenderEntries(opts, i + 1, names,
                                     Append(evs, SepTextEv(e.name, e.cb)))
             ELSE IF Truthy(e.tooltip) /\ ~IsStr(e.tooltip)
             THEN [out |-> evs, err |-> "TypeError", names |-> names]
             ELSE RenderEntries(opts, i + 1, Append(names, e.name), evs)

\* Form.send, the options text and the listing.
Render(opts) == RenderEntries(opts, 1, <<>>, <<RenderEv>>)

\* choice in range(1, len(options) + 1)
InRange(ch, names) == ch.t = "int" /\ ch.n \in 1..Len(names)

\* A reset whenever invalid has reached the threshold: invalid >= CLEAN_FAILED_RESPONSES.
ShouldReset_AtLeast(inv, threshold) ==
    IsInt(inv) /\ threshold.t \in {"int", "bool", "float"} /\ inv.n >= threshold.n

\* A reset one attempt late: invalid > CLEAN_FAILED_RESPONSES.
ShouldReset_Late(inv, threshold) ==
    IsInt(inv) /\ threshold.t \in {"int", "bool", "float"} /\ inv.n > threshold.n

\* isinstance(invalid, int) and invalid == CLEAN_FAILED_RESPONSES
ShouldReset(inv, threshold) ==
    IsInt(inv) /\ threshold.t \in {"int", "bool", "float"} /\ inv.n = threshold.n

\* The choice read as a zero-based index.
ChosenOption_ZeroBased(names, ch) == names[(ch.n % Len(names)) + 1]

\* list(options.keys())[choice - 1]
ChosenOption(names, ch) == names[ch.n]

\* A dispatch that runs the option's callback before DEFAULT_CALLBACK.
Dispatch_OptionFirst(opts, reg, names, ch, evs) ==
    LET chosen == ChosenOption(names, ch)
        e1 == IF Truthy(reg["CLEAR_FORM_AFTER_FORM"]) THEN Append(evs, ClearEv) ELSE evs
        dcb == reg["DEFAULT_CALLBACK"]
        callback == DictGet(opts, chosen).cb
        e2 == Append(e1, CallEv(chosen, callback, IF callback.n = 1 THEN 1 ELSE 0))
        e3 == IF Truthy(dcb) THEN Append(e2, CallEv(DEFAULT_CALLBACK_OWNER, dcb, 0)) ELSE e2
    IN  [out |-> e3, err |-> "none", chosen |-> chosen]

\* The dispatch at the end of send.  callback() on a function that declares
\* parameters is made and raises TypeError.
Dispatch(opts, reg, names, ch, evs) ==
    LET chosen == ChosenOption(names, ch)
        e1 == IF Truthy(reg["CLEAR_FORM_AFTER_FORM"]) THEN Append(evs, ClearEv) ELSE evs
        dcb == reg["DEFAULT_CALLBACK"]
        e2 == IF Truthy(dcb) THEN Append(e1, CallEv(DEFAULT_CALLBACK_OWNER, dcb, 0)) ELSE e1
        callback == DictGet(opts, chosen).cb
    IN  IF Truthy(dcb) /\ (~Callable(dcb) \/ dcb.n # 0)
        THEN [out |-> e1, err |-> "TypeError", chosen |-> chosen]
        ELSE IF callback.n = 1
        THEN [out |-> Append(e2, CallEv(chosen, callback, 1)), err |-> "none", chosen |-> chosen]
        ELSE IF callback.n = 0
        THEN [out |-> Append(e2, CallEv(chosen, callback, 0)), err |-> "none", chosen |-> chosen]
        ELSE [out |-> Append(e2, CallEv(chosen, callback, 0)), err |-> "TypeError",
              chosen |-> chosen]

\* One pass of the try block on a line: the new choice, invalid and error, and
\* whether the loop was left by break.
Attempt(line, ch0, inv0, err0, names, dflt) ==
    LET p == ParseInt(line)
    IN  IF p.ok
        THEN IF InRange(PyInt(p.n), names)
             THEN [err |-> err0, ch |-> PyInt(p.n), inv |-> inv0, brk |-> FALSE]
             ELSE [err |-> PyStr(INVALID_CHOICE), ch |-> PyInt(p.n), inv |-> PyInt(inv0.n + 1),
                   brk |-> FALSE]
        ELSE IF ~Truthy(ch0) /\ Truthy(dflt) /\ IndexOf(names, dflt.s) > 0
             THEN [err |-> err0, ch |-> PyInt(IndexOf(names, dflt.s)), inv |-> inv0,
                   brk |-> TRUE]
             ELSE [err |-> PyStr(VALID_NUMBER), ch |-> ch0, inv |-> PyInt(inv0.n + 1),
                   brk |-> FALSE]

\* send leaves by return (err = "none") or by an exception.
Leave(err, chosen, evs) ==
    /\ pc' = IF err = "none" THEN "returned" ELSE "raised"
    /\ chosen_option' = chosen
    /\ out' = evs
    /\ optionsLocal' = <<>>
    /\ choice' = PyNone
    /\ invalid' = PyNone
    /\ error' = PyNone

\* A restart that does not pass the pending error on: self.send().
Enter_ErrorDropped(err, evs, n) ==
    LET r == Render(options)
    IN  /\ renders' = n + 1
        /\ IF r.err # "none"
           THEN Leave(r.err, PyNone, evs \o r.out)
           ELSE /\ pc' = "prompt"
                /\ optionsLocal' = r.names
                /\ choice' = PyNone
                /\ invalid' = PyInt(0)
                /\ error' = PyNone
                /\ chosen_option' = PyNone
                /\ out' = evs \o r.out

\* send(err) from its first line to the first input() of its loop; n counts
\* the renderings of this top-level send so far.  invalid is None when the
\* loop is entered, so its first pass asks for no reset and sets invalid to 0.
Enter(err, evs, n) ==
    LET r == Render(options)
    IN  /\ renders' = n + 1
        /\ IF r.err # "none"
           THEN Leave(r.err, PyNone, evs \o r.out)
           ELSE /\ pc' = "prompt"
                /\ optionsLocal' = r.names
                /\ choice' = PyNone
                /\ invalid' = PyInt(0)
                /\ error' = err
                /\ chosen_option' = PyNone
                /\ out' = evs \o r.out \o (IF Truthy(err) THEN <<PrintEv(err.s)>> ELSE <<>>)

\* A send that pops the separator entries from the form, as InputForm.send does.
Send_PopsSeparators ==
    /\ Quiescent
    /\ nInputs' = 0
    /\ invalids' = 0
    /\ lastAdd' = NoAdd
    /\ Enter(PyNone, <<>>, 0)
    /\ options' = SelectSeq(options, LAMBDA e : ~Contains(SEP, e.name))
    /\ UNCHANGED <<default_option, separatorCount, settingsVars, inputVars>>

\* A top-level OptionForm.send().
Send ==
    /\ Quiescent
    /\ nInputs' = 0
    /\ invalids' = 0
    /\ lastAdd' = NoAdd
    /\ Enter(PyNone, <<>>, 0)
    /\ UNCHANGED <<options, default_option, separatorCount, settingsVars, inputVars>>

\* The user submits a line at the prompt of send.
Submit(line) ==
    /\ pc = "prompt"
    /\ nInputs < MaxInputs
    /\ nInputs' = nInputs + 1
    /\ LET a == Attempt(line, choice, invalid, error, optionsLocal, default_option)
           colour == settings["ERROR_COLOUR"]
           wrap == ~a.brk /\ Truthy(a.err)
           err == IF wrap /\ IsStr(colour)
                  THEN PyStr(colour.s \o a.err.s \o RESET_ALL)
                  ELSE a.err
           evs == <<InputEv(line)>>
       IN  IF wrap /\ ~IsStr(colour)
           THEN /\ Leave("TypeError", PyNone, evs)
                /\ invalids' = invalids + (IF InRange(a.ch, optionsLocal) THEN 0 ELSE 1)
                /\ UNCHANGED renders
           ELSE IF InRange(a.ch, optionsLocal)
           THEN LET d == Dispatch(options, settings, optionsLocal, a.ch, evs)
                IN  /\ Leave(d.err, PyStr(d.chosen), d.out)
                    /\ UNCHANGED <<invalids, renders>>
           ELSE IF ShouldReset(a.inv, settings["CLEAN_FAILED_RESPONSES"])
           THEN /\ invalids' = invalids + 1
                /\ Enter(err, Append(evs, ClearEv), renders)
           ELSE /\ invalids' = invalids + 1
                /\ pc' = "prompt"
                /\ choice' = a.ch
                /\ invalid' = a.inv
                /\ error' = err
                /\ out' = Append(evs, PrintEv(err.s))
                /\ UNCHANGED <<optionsLocal, chosen_option, renders>>
    /\ UNCHANGED <<formVars, settingsVars, inputVars>>

(***************************************************************************)
(* InputForm (src/Form.py).                                                *)
(***************************************************************************)
Upper == <<"A", "B", "C", "D", "E", "F", "G", "H", "I", "J", "K", "L", "M",
           "N", "O", "P", "Q", "R", "S", "T", "U", "V", "W", "X", "Y", "Z">>
Lower == <<"a", "b", "c", "d", "e", "f", "g", "h", "i", "j", "k", "l", "m",
           "n", "o", "p", "q", "r", "s", "t", "u", "v", "w", "x", "y", "z">>

\* str.lower
LowerChar(c) ==
    IF \E i \in 1..Len(Upper) : Upper[i] = c
    THEN Lower[CHOOSE i \in 1..Len(Upper) : Upper[i] = c]
    ELSE c
ToLower(str) == [i \in 1..Len(str) |-> LowerChar(str[i])]

INF == <<"inf">>
NAN == <<"nan">>
PyInf == [t |-> "float", n |-> 1, s |-> INF]
PyNan == [t |-> "float", n |-> 1, s |-> NAN]

\* float(line) for the lines of the model: a sign, digits, and at most one
\* fractional digit, or inf/nan; the value is kept in tenths.
ParseFloat(line) ==
    LET signed == line # <<>> /\ line[1] \in {"-", "+"}
        body == IF signed THEN Tail(line) ELSE line
        neg == signed /\ line[1] = "-"
        dot == IndexOf(body, ".")
        whole == IF dot = 0 THEN body ELSE SubSeq(body, 1, dot - 1)
        frac == IF dot = 0 THEN <<>> ELSE SubSeq(body, dot + 1, Len(body))
        digits == whole \o frac
        tenths == Len(Digit) * DigitsVal(whole) + DigitsVal(frac)
    IN  IF ToLower(body) \in {<<"i", "n", "f">>, <<"i", "n", "f", "i", "n", "i", "t", "y">>}
        THEN [val |-> PyInf, ok |-> TRUE]
        ELSE IF ToLower(body) = <<"n", "a", "n">>
        THEN [val |-> PyNan, ok |-> TRUE]
        ELSE IF digits = <<>> \/ Len(frac) > 1 \/ \E i \in 1..Len(digits) : ~IsDigit(digits[i])
        THEN [val |-> PyNone, ok |-> FALSE]
        ELSE [val |-> PyFloat(IF neg THEN 0 - tenths ELSE tenths), ok |-> TRUE]

\* round(x) of a finite float in tenths: to the nearest integer, ties to even.
Round(tenths) ==
    LET q == tenths \div Len(Digit)
        r == tenths % Len(Digit)
    IN  IF r + r < Len(Digit) THEN q
        ELSE IF r + r > Len(Digit) THEN q + 1
        ELSE IF q % 2 = 0 THEN q ELSE q + 1

YES == {<<"y">>, <<"y", "e", "s">>, <<"t", "r", "u", "e">>}
NO == {<<"n">>, <<"n", "o">>, <<"f", "a", "l", "s", "e">>}
BOOL_MESSAGE == <<"Invalid input: Please enter 'y' or 'n'.">>
REQUIRED == <<"required">>
ERROR_INV_NUMCONST == <<"err_invalid-numconst">>

\* validation(response) can be made: the function takes the one argument;
\* the call of any other function is a TypeError.
TakesOne(fn) == Callable(fn) /\ fn.n = 1

\* The validation function of the model, `lambda r: None if r else "required"`,
\* under any name: it rejects the falsy candidates.
ValidationResult(fn, candidate) ==
    IF Truthy(candidate) THEN PyNone ELSE PyStr(REQUIRED)

Field(name, type, numtype, tooltip, validation, default, callback) ==
    [name |-> name, callback |-> callback, tooltip |-> tooltip, type |-> type,
     numtype |-> numtype, validation |-> validation, default |-> default,
     response |-> PyNone]

\* The entry addSeparator stores: a tooltip and nothing else.
SeparatorField(name, text) ==
    Field(name, "absent", "absent", text, PyNone, PyNone, PyNone)

\* The guard of _formInputRegistration.wrapper: the exception raised, or "none".
RegistrationError(name, validation) ==
    IF Contains(SEP, name)
    THEN "ReservedName"
    ELSE IF Truthy(validation) /\ ~Callable(validation)
    THEN "AttributeError"
    ELSE IF Truthy(validation) /\ validation.n # 1
    THEN "InvalidValidationArity"
    ELSE "none"

Reg(op, name, err) == [name |-> name, err |-> err, op |-> op]
NoReg == Reg("none", <<>>, "none")

InputQuiescent == ipc \in {"idle", "returned", "raised"}

\* An exception that leaves send: its class and, where the code composes one,
\* its message.
Exc(err, msg) == [err |-> err, msg |-> msg]
NoExc == Exc("none", <<>>)

\* Editing the form drops the record of the send before it.
ForgetInputSend ==
    /\ ipc' = "idle"
    /\ cur' = 0
    /\ iout' = <<>>
    /\ raised' = NoExc
    /\ result' = <<>>
    /\ UNCHANGED nLines

\* kwargs.get(key, None) in the wrapper: an argument passed by position is not
\* in kwargs.
KeywordArg(kw, v) == IF kw THEN v ELSE PyNone

\* A register call, with its optional arguments passed by keyword (kw) or by
\* position: the guard on what the wrapper sees, then the entry; the tooltip
\* kept is the wrapper's.
Register(op, kw, field) ==
    /\ InputQuiescent
    /\ nRegs < MaxFields
    /\ nRegs' = nRegs + 1
    /\ LET err == RegistrationError(field.name, KeywordArg(kw, field.validation))
           entry == [field EXCEPT !.tooltip = KeywordArg(kw, field.tooltip)]
       IN  /\ inputs' = IF err = "none" THEN DictSet(inputs, entry) ELSE inputs
           /\ lastReg' = Reg(op, field.name, err)
    /\ ForgetInputSend
    /\ UNCHANGED <<inputSeparatorCount, settingsVars, optionVars>>

registerTextInput(name, tooltip, validation, default, callback, kw) ==
    Register("registerTextInput", kw,
             Field(name, "TEXT", "absent", tooltip, validation, default, callback))

registerNumberInput(name, tooltip, numType, validation, default, callback, kw) ==
    Register("registerNumberInput", kw,
             Field(name, "NUMBER", numType, tooltip, validation, default, callback))

\* registerBoolInput registers a text input without validation, by keyword,
\* then sets the type and the default.
registerBoolInput(name, tooltip, default, callback) ==
    Register("registerBoolInput", TRUE,
             Field(name, "BOOL", "absent", tooltip, PyNone, default, callback))

\* str(text) if text is not None else ""
SeparatorText(text) == IF text = PyNone THEN PyStr(<<>>) ELSE text

inputAddSeparator(text) ==
    /\ InputQuiescent
    /\ nRegs < MaxFields
    /\ nRegs' = nRegs + 1
    /\ inputSeparatorCount' = inputSeparatorCount + 1
    /\ LET name == SEP \o IntToStr(inputSeparatorCount')
       IN  /\ inputs' = DictSet(inputs, SeparatorField(name, SeparatorText(text)))
           /\ lastReg' = Reg("addSeparator", name, "none")
    /\ ForgetInputSend
    /\ UNCHANGED <<settingsVars, optionVars>>

\* An accepted value that is not kept.
Accepted_Dropped(value) == [err |-> "none", msg |-> <<>>, value |-> PyNone, kind |-> "accept"]

\* One pass of a field's read loop on a line: the value accepted ("accept"),
\* the message printed before the prompt repeats ("retry"), or the exception
\* that leaves send ("raise").
Accepted(value) == [err |-> "none", msg |-> <<>>, value |-> value, kind |-> "accept"]
Retry(msg) == [err |-> "none", msg |-> msg, value |-> PyNone, kind |-> "retry"]
Raise(err) == [err |-> err, msg |-> <<>>, value |-> PyNone, kind |-> "raise"]
RaiseWith(err, msg) == [err |-> err, msg |-> msg, value |-> PyNone, kind |-> "raise"]

\* print(ERROR_COLOUR + msg + RESET_ALL), then the loop repeats.
RetryWith(colour, msg) ==
    IF IsStr(colour) THEN Retry(colour.s \o msg \o RESET_ALL) ELSE Raise("TypeError")

\* The BOOL path comparing the line as typed, without lower().
BoolAttempt_AsTyped(f, line, colour) ==
    IF line \in YES THEN Accepted(PyBool(TRUE))
    ELSE IF line \in NO THEN Accepted(PyBool(FALSE))
    ELSE IF line = <<>> /\ f.default # PyNone THEN Accepted(f.default)
    ELSE RetryWith(colour, BOOL_MESSAGE)

BoolAttempt(f, line, colour) ==
    LET response == ToLower(line)
    IN  IF response \in YES THEN Accepted(PyBool(TRUE))
        ELSE IF response \in NO THEN Accepted(PyBool(FALSE))
        ELSE IF response = <<>> /\ f.default # PyNone THEN Accepted(f.default)
        ELSE RetryWith(colour, BOOL_MESSAGE)

\* The rejection of a NUMBER candidate: the print statement adds the setting
\* key, not the setting's value, to the message.
NumberRejected(colour, msg) == Raise("TypeError")

\* The rejection of a TEXT candidate.
TextRejected(colour, msg) ==
    IF IsStr(msg) THEN RetryWith(colour, msg.s) ELSE Raise("TypeError")

\* f"numType {str(numType)} not a NumConst"
NumConstMessage(numtype) == <<"numType ", numtype, " not a NumConst">>

\* A coercion that keeps the number as parsed under an unknown subtype.
Coerce_UnknownKept(numtype, x) ==
    IF numtype = "NUM_INT"
    THEN IF x = PyInf THEN [err |-> "OverflowError", val |-> PyNone]
         ELSE IF x = PyNan THEN [err |-> "ValueError", val |-> PyNone]
         ELSE [err |-> "none", val |-> PyInt(Round(x.n))]
    ELSE [err |-> "none", val |-> x]

\* The coercion of a parsed number: the value, or the exception.
Coerce(numtype, x) ==
    IF numtype = "NUM_FLOAT" THEN [err |-> "none", val |-> x]
    ELSE IF numtype = "NUM_INT"
    THEN IF x = PyInf THEN [err |-> "OverflowError", val |-> PyNone]
         ELSE IF x = PyNan THEN [err |-> "ValueError", val |-> PyNone]
         ELSE [err |-> "none", val |-> PyInt(Round(x.n))]
    ELSE [err |-> "NumConst", val |-> PyNone]

NumberAttempt(f, line, colour) ==
    LET p == ParseFloat(line)
        c == Coerce(f.numtype, p.val)
        verdict == ValidationResult(f.validation, c.val)
    IN  IF line = <<>> /\ f.default # PyNone THEN Accepted(f.default)
        ELSE IF ~p.ok THEN RetryWith(colour, VALID_NUMBER)
        ELSE IF c.err = "ValueError" THEN RetryWith(colour, VALID_NUMBER)
        ELSE IF c.err = "NumConst"
        THEN IF IsStr(colour)
             THEN RaiseWith("ValueError", colour.s \o NumConstMessage(f.numtype) \o RESET_ALL)
             ELSE Raise("TypeError")
        ELSE IF c.err # "none" THEN Raise(c.err)
        ELSE IF Truthy(f.validation) /\ ~TakesOne(f.validation) THEN Raise("TypeError")
        ELSE IF Truthy(f.validation) /\ Truthy(verdict)
        THEN NumberRejected(colour, verdict)
        ELSE Accepted(c.val)

\* The TEXT path with the default validated like a typed candidate.
TextAttempt_ValidatesDefault(f, line, colour) ==
    LET candidate == IF line = <<>> /\ f.default # PyNone THEN f.default ELSE PyStr(line)
        verdict == ValidationResult(f.validation, candidate)
    IN  IF Truthy(f.validation) /\ ~TakesOne(f.validation) THEN Raise("TypeError")
        ELSE IF Truthy(f.validation) /\ Truthy(verdict)
        THEN TextRejected(colour, verdict)
        ELSE Accepted(candidate)

TextAttempt(f, line, colour) ==
    LET verdict == ValidationResult(f.validation, PyStr(line))
    IN  IF line = <<>> /\ f.default # PyNone THEN Accepted(f.default)
        ELSE IF Truthy(f.validation) /\ ~TakesOne(f.validation) THEN Raise("TypeError")
        ELSE IF Truthy(f.validation) /\ Truthy(verdict)
        THEN TextRejected(colour, verdict)
        ELSE Accepted(PyStr(line))

FieldAttempt(f, line, colour) ==
    IF f.type = "BOOL" THEN BoolAttempt(f, line, colour)
    ELSE IF f.type = "NUMBER" THEN NumberAttempt(f, line, colour)
    ELSE TextAttempt(f, line, colour)

\* The for loop of send from entry i on, up to the next field: separators are
\* printed and skipped.
RECURSIVE NextField(_, _, _)
NextField(ins, i, evs) ==
    IF i > Len(ins) THEN [i |-> i, out |-> evs]
    ELSE IF Contains(SEP, ins[i].name)
    THEN NextField(ins, i + 1, Append(evs, PrintEv(ins[i].tooltip.s)))
    ELSE [i |-> i, out |-> evs]

\* The field's callback called before the clearing.
AfterField_CallbackFirst(f, reg, evs) ==
    LET callback == f.callback
        e1 == IF Truthy(callback) /\ Callable(callback)
              THEN Append(evs, CallEv(f.name, callback, IF callback.n = 1 THEN 1 ELSE 0))
              ELSE evs
        e2 == IF Truthy(reg["CLEAR_FORM_AFTER_ACTION"]) THEN Append(e1, ClearEv) ELSE e1
    IN  [out |-> e2, err |-> "none"]

\* What follows a field's read loop: the clearing and the field's callback.
AfterField(f, reg, evs) ==
    LET e1 == IF Truthy(reg["CLEAR_FORM_AFTER_ACTION"]) THEN Append(evs, ClearEv) ELSE evs
        callback == f.callback
    IN  IF ~(Truthy(callback) /\ Callable(callback))
        THEN [out |-> e1, err |-> "none"]
        ELSE IF callback.n = 1
        THEN [out |-> Append(e1, CallEv(f.name, callback, 1)), err |-> "none"]
        ELSE IF callback.n = 0
        THEN [out |-> Append(e1, CallEv(f.name, callback, 0)), err |-> "none"]
        ELSE [out |-> Append(e1, CallEv(f.name, callback, 0)), err |-> "TypeError"]

\* send returning the entries as they are, separators included.
StripSeparators_Kept(ins) == ins

\* The entries that are left when the separators are popped.
StripSeparators(ins) == SelectSeq(ins, LAMBDA e : ~Contains(SEP, e.name))

\* The end of send, after the last entry.
Finish(ins, reg, evs) ==
    LET dcb == reg["DEFAULT_CALLBACK"]
        e1 == IF Truthy(dcb) THEN Append(evs, CallEv(DEFAULT_CALLBACK_OWNER, dcb, 0)) ELSE evs
        e2 == Append(e1, PrintEv(reg["HEADER"].s))
        e3 == IF Truthy(reg["CLEAR_FORM_AFTER_FORM"]) THEN Append(e2, ClearEv) ELSE e2
    IN  IF Truthy(dcb) /\ (~Callable(dcb) \/ dcb.n # 0)
        THEN [out |-> evs, err |-> "TypeError"]
        ELSE [out |-> e3, err |-> "none"]

\* A send that returns a copy without the separators and leaves the form whole.
Proceed_ReturnsCopy(ins, i, evs) ==
    LET nf == NextField(ins, i, evs)
        fin == Finish(ins, settings, nf.out)
    IN  IF nf.i <= Len(ins)
        THEN /\ ipc' = "prompt"
             /\ cur' = nf.i
             /\ iout' = nf.out
             /\ inputs' = ins
             /\ raised' = NoExc
             /\ result' = <<>>
        ELSE IF fin.err # "none"
        THEN /\ ipc' = "raised"
             /\ cur' = 0
             /\ iout' = fin.out
             /\ inputs' = ins
             /\ raised' = Exc(fin.err, <<>>)
             /\ result' = <<>>
        ELSE /\ ipc' = "returned"
             /\ cur' = 0
             /\ iout' = fin.out
             /\ inputs' = ins
             /\ raised' = NoExc
             /\ result' = StripSeparators(ins)

\* send goes on from entry i: to the prompt of the next field, or to its end,
\* where the separators are popped and the entries returned.
Proceed(ins, i, evs) ==
    LET nf == NextField(ins, i, evs)
        fin == Finish(ins, settings, nf.out)
    IN  IF nf.i <= Len(ins)
        THEN /\ ipc' = "prompt"
             /\ cur' = nf.i
             /\ iout' = nf.out
             /\ inputs' = ins
             /\ raised' = NoExc
             /\ result' = <<>>
        ELSE IF fin.err # "none"
        THEN /\ ipc' = "raised"
             /\ cur' = 0
             /\ iout' = fin.out
             /\ inputs' = ins
             /\ raised' = Exc(fin.err, <<>>)
             /\ result' = <<>>
        ELSE /\ ipc' = "returned"
             /\ cur' = 0
             /\ iout' = fin.out
             /\ inputs' = StripSeparators(ins)
             /\ raised' = NoExc
             /\ result' = StripSeparators(ins)

\* A call of InputForm.send().
InputSend ==
    /\ InputQuiescent
    /\ lastReg' = NoReg
    /\ Proceed(inputs, 1, <<RenderEv>>)
    /\ UNCHANGED <<inputSeparatorCount, nRegs, nLines, settingsVars, optionVars>>

\* The user submits a line at the prompt of a field.
InputSubmit(line) ==
    /\ ipc = "prompt"
    /\ nLines < MaxInputs
    /\ nLines' = nLines + 1
    /\ LET f == inputs[cur]
           a == FieldAttempt(f, line, settings["ERROR_COLOUR"])
           evs == <<InputEv(line)>>
           stored == [inputs EXCEPT ![cur].response = a.value]
           af == AfterField(f, settings, evs)
       IN  IF a.kind = "raise"
           THEN /\ ipc' = "raised"
                /\ raised' = Exc(a.err, a.msg)
                /\ iout' = evs
                /\ UNCHANGED <<cur, inputs, result>>
           ELSE IF a.kind = "retry"
           THEN /\ iout' = Append(evs, PrintEv(a.msg))
                /\ UNCHANGED <<ipc, cur, inputs, raised, result>>
           ELSE IF af.err # "none"
           THEN /\ ipc' = "raised"
                /\ raised' = Exc(af.err, <<>>)
                /\ iout' = af.out
                /\ inputs' = stored
                /\ UNCHANGED <<cur, result>>
           ELSE Proceed(stored, cur + 1, af.out)
    /\ UNCHANGED <<inputSeparatorCount, lastReg, nRegs, settingsVars, optionVars>>

(***************************************************************************)
(* The specifications: the calls a program makes and the lines a user      *)
(* types, from small sets.                                                 *)
(***************************************************************************)
MaxThreshold == 2

WriteValues ==
    {PyNone, PyBool(TRUE), PyBool(FALSE), PyInt(0), PyInt(2), PyInt(0 - 1),
     PyStr(<<>>), PyStr(<<"h">>), PyFn(<<"d">>, 0)}
WriteKeys == Setting \cup {"BOGUS"}
LegacyKeys == LegacySetting \cup {"BOGUS"}

\* editSetting calls made before a form is used.
Configure(reg, setting, newVal) == EditResult(reg, setting, newVal).reg

MenuSettings ==
    {Configure(Configure(Configure(FormSettingsInit,
        "CLEAN_FAILED_RESPONSES", PyInt(t)),
        "CLEAR_FORM_AFTER_FORM", PyBool(c)),
        "DEFAULT_CALLBACK", d) :
        t \in 0..MaxThreshold, c \in BOOLEAN, d \in {PyNone, PyFn(<<"d">>, 0)}}

InputSettings ==
    {FormSettingsInit,
     Configure(Configure(FormSettingsInit,
        "CLEAR_FORM_AFTER_ACTION", PyBool(TRUE)),
        "DEFAULT_CALLBACK", PyFn(<<"d">>, 0))}

NameA == <<"A">>
NameB == <<"B">>
NameX == SEP \o <<"_", "X">>
AddCalls ==
    {[name |-> NameA, tooltip |-> PyNone, cb |-> PyFn(<<"a">>, 0), isDefault |-> FALSE],
     [name |-> NameB, tooltip |-> PyStr(<<"t">>), cb |-> PyFn(<<"b">>, 1), isDefault |-> FALSE],
     [name |-> NameB, tooltip |-> PyStr(<<"t">>), cb |-> PyFn(<<"b">>, 1), isDefault |-> TRUE],
     [name |-> NameA, tooltip |-> PyNone, cb |-> PyNone, isDefault |-> FALSE],
     [name |-> NameA, tooltip |-> PyNone, cb |-> PyFn(<<"c">>, 2), isDefault |-> FALSE],
     [name |-> NameX, tooltip |-> PyNone, cb |-> PyFn(<<"x">>, 0), isDefault |-> FALSE],
     [name |-> NameX, tooltip |-> PyStr(<<"t">>), cb |-> PyFn(<<"x">>, 0), isDefault |-> FALSE],
     [name |-> NameX, tooltip |-> PyStr(SEP), cb |-> PyFn(<<"x">>, 0), isDefault |-> FALSE]}
SeparatorTexts == {PyNone, PyStr(<<"x">>)}
MenuLines == {<<>>, <<"1">>, <<"2">>, <<"9">>, <<"0">>, <<"a">>}

Check == PyFn(<<"check">>, 1)
NameT == <<"T">>
NameN == <<"N">>
TextCalls ==
    {[name |-> NameT, callback |-> PyFn(<<"t">>, 1), validation |-> Check, default |-> PyNone,
      kw |-> TRUE],
     [name |-> NameT, callback |-> PyNone, validation |-> Check, default |-> PyStr(<<>>),
      kw |-> TRUE],
     [name |-> NameT, callback |-> PyNone, validation |-> PyFn(<<"two">>, 2), default |-> PyNone,
      kw |-> TRUE],
     [name |-> NameT, callback |-> PyNone, validation |-> PyFn(<<"two">>, 2), default |-> PyNone,
      kw |-> FALSE],
     [name |-> NameX, callback |-> PyNone, validation |-> PyNone, default |-> PyNone,
      kw |-> TRUE]}
NumberCalls ==
    {[name |-> NameN, callback |-> PyFn(<<"n">>, 0), validation |-> Check, default |-> PyInt(0),
      numType |-> "NUM_INT"],
     [name |-> NameN, callback |-> PyNone, validation |-> Check, default |-> PyNone,
      numType |-> "NUM_FLOAT"],
     [name |-> NameN, callback |-> PyNone, validation |-> PyNone, default |-> PyNone,
      numType |-> "HEX"]}
BoolCalls ==
    {[name |-> NameB, callback |-> PyNone, default |-> PyNone],
     [name |-> NameB, callback |-> PyNone, default |-> PyBool(TRUE)]}
FieldLines ==
    {<<>>, <<"x">>, <<"5">>, <<"0">>, <<"3", ".", "7">>, <<"i", "n", "f">>, <<"Y">>,
     <<"n", "o">>}

InitRegistry ==
    /\ lastCall = Call("init", "", PyNone, "none", PyNone, FALSE)
    /\ nCalls = 0

InitOptionForm ==
    /\ options = <<>>
    /\ default_option = PyNone
    /\ separatorCount = 0
    /\ lastAdd = NoAdd
    /\ pc = "idle"
    /\ optionsLocal = <<>>
    /\ choice = PyNone
    /\ invalid = PyNone
    /\ error = PyNone
    /\ chosen_option = PyNone
    /\ out = <<>>
    /\ nInputs = 0
    /\ invalids = 0
    /\ renders = 0

InitInputForm ==
    /\ inputs = <<>>
    /\ inputSeparatorCount = 0
    /\ nRegs = 0
    /\ lastReg = NoReg
    /\ ipc = "idle"
    /\ cur = 0
    /\ iout = <<>>
    /\ raised = NoExc
    /\ result = <<>>
    /\ nLines = 0

\* The registry alone, of either class.
InitSettings ==
    /\ impl \in {"Form", "FormSettings"}
    /\ settings = IF impl = "Form" THEN FormSettingsInit ELSE LegacySettingsInit
    /\ InitRegistry
    /\ InitOptionForm
    /\ InitInputForm

NextSettings ==
    \/ \E k \in WriteKeys, v \in WriteValues : editSetting(k, v)
    \/ \E k \in WriteKeys : getSetting(k)
    \/ \E k \in LegacyKeys, v \in WriteValues : legacyEditSetting(k, v)
    \/ \E k \in LegacySetting : legacyProperty(k)

SpecSettings == InitSettings /\ [][NextSettings]_vars

\* An OptionForm over a configured registry.
InitOption ==
    /\ impl = "Form"
    /\ settings \in MenuSettings
    /\ InitRegistry
    /\ InitOptionForm
    /\ InitInputForm

NextOption ==
    \/ \E c \in AddCalls : addOption(c.name, c.cb, c.tooltip, c.isDefault)
    \/ \E t \in SeparatorTexts : addSeparator(t)
    \/ Send
    \/ \E line \in MenuLines : Submit(line)

SpecOption == InitOption /\ [][NextOption]_vars

\* An InputForm over a configured registry.
InitInput ==
    /\ impl = "Form"
    /\ settings \in InputSettings
    /\ InitRegistry
    /\ InitOptionForm
    /\ InitInputForm

NextInput ==
    \/ \E c \in TextCalls :
        registerTextInput(c.name, PyNone, c.validation, c.default, c.callback, c.kw)
    \/ \E c \in NumberCalls :
        registerNumberInput(c.name, PyNone, c.numType, c.validation, c.default, c.callback,
                            TRUE)
    \/ \E c \in BoolCalls : registerBoolInput(c.name, PyNone, c.default, c.callback)
    \/ \E t \in SeparatorTexts : inputAddSeparator(t)
    \/ InputSend
    \/ \E line \in FieldLines : InputSubmit(line)

SpecInput == InitInput /\ [][NextInput]_vars

(***************************************************************************)
(* Properties of OptionForm, checked under SpecOption.                     *)
(***************************************************************************)
\* The names send numbers: the entries without the marker, in insertion order.
Selectable(opts) ==
    LET sel == SelectSeq(opts, LAMBDA e : ~Contains(SEP, e.name))
    IN  [i \in 1..Len(sel) |-> sel[i].name]

\* The line send read last, once it has read one.
HasLine == pc # "idle" /\ out # <<>> /\ out[1].e = "input"
LastLine == out[1].s

\* The line is an integer k with 1 <= k <= n.
NumberedChoice ==
    /\ HasLine
    /\ ParseInt(LastLine).ok
    /\ ParseInt(LastLine).n \in 1..Len(Selectable(options))

\* The positions in out of the calls of option callbacks, and of all calls.
OptionCalls ==
    {i \in DOMAIN out : out[i].e = "call" /\ out[i].s # DEFAULT_CALLBACK_OWNER}
Calls == {i \in DOMAIN out : out[i].e = "call"}

\* C1: a line that is an integer k with 1 <= k <= n ends send with the k-th
\* entry that is not a separator as the chosen option, and the one option
\* callback called is the callback of that entry.
C1_KthSelectableOption ==
    NumberedChoice =>
        LET name == Selectable(options)[ParseInt(LastLine).n]
            callback == DictGet(options, name).cb
        IN  /\ pc \in {"returned", "raised"}
            /\ chosen_option = PyStr(name)
            /\ Cardinality(OptionCalls) = 1
            /\ \A i \in OptionCalls :
                out[i] = CallEv(name, callback, IF callback.n = 1 THEN 1 ELSE 0)

\* "2" on a menu whose second entry is a separator picks the third entry.
C1_Witness ==
    /\ NumberedChoice
    /\ LastLine = <<"2">>
    /\ Len(options) = 3
    /\ Contains(SEP, options[2].name)
    /\ chosen_option = PyStr(options[3].name)
    /\ pc = "returned"

\* C2: a callback is called only after a valid choice, which is an integer
\* in 1..n or, with a default option set, the empty line; and one send calls
\* one option callback at most.
C2_CallbackOnlyAfterValidChoice ==
    /\ Cardinality(OptionCalls) <= 1
    /\ (pc # "idle" /\ Calls # {}) =>
           \/ NumberedChoice
           \/ HasLine /\ LastLine = <<>> /\ Truthy(default_option)

\* C3: with CLEAN_FAILED_RESPONSES = T > 0, a send that has taken i invalid
\* lines has rendered the form 1 + i \div T times; the T-th invalid line since
\* the last rendering is followed by one clearing and then one rendering, no
\* other invalid line by either; invalid counts the invalid lines since the
\* last rendering, and the prompt numbers the same options.
C3_ResetEveryThreshold ==
    LET T == settings["CLEAN_FAILED_RESPONSES"].n
        redrawn == {i \in DOMAIN out : out[i] = RenderEv}
        cleared == {i \in DOMAIN out : out[i] = ClearEv}
    IN  (T > 0 /\ pc # "idle") =>
            /\ renders = 1 + (invalids \div T)
            /\ pc = "prompt" =>
                  /\ invalid = PyInt(invalids % T)
                  /\ optionsLocal = Selectable(options)
                  /\ IF invalids > 0 /\ invalids % T = 0
                     THEN cleared = {2} /\ redrawn = {3}
                     ELSE cleared = {} /\ redrawn \subseteq {1}

\* With T = 2, two invalid lines have led to the second rendering.
C3_Witness ==
    /\ settings["CLEAN_FAILED_RESPONSES"] = PyInt(2)
    /\ pc = "prompt"
    /\ invalids = 2
    /\ renders = 2
    /\ invalid = PyInt(0)
    /\ Len(optionsLocal) = 2
    /\ out[2] = ClearEv

\* C4: with a default option set, the empty line chooses the default option
\* at any prompt.
C4_EmptyLineChoosesDefault ==
    (HasLine /\ LastLine = <<>> /\ Truthy(default_option)) =>
        pc = "returned" /\ chosen_option = default_option

\* C10: addOption called with a name that contains the marker raises the
\* reserved-name error.
C10_MarkerNameRejected ==
    (lastAdd.op = "addOption" /\ Contains(SEP, lastAdd.name)) =>
        lastAdd.err = "ReservedName"

(***************************************************************************)
(* Properties of InputForm, checked under SpecInput.                       *)
(***************************************************************************)
\* The candidate a TEXT or NUMBER field makes of a line, when it makes one.
Candidate(f, line) ==
    IF f.type = "TEXT"
    THEN [val |-> PyStr(line), ok |-> TRUE]
    ELSE [val |-> Coerce(f.numtype, ParseFloat(line).val).val,
          ok |-> ParseFloat(line).ok
                 /\ Coerce(f.numtype, ParseFloat(line).val).err = "none"]

\* The line reaches the validation function of the field.
Validated(f, line) ==
    /\ f.type \in {"TEXT", "NUMBER"}
    /\ Truthy(f.validation)
    /\ ~(line = <<>> /\ f.default # PyNone)
    /\ Candidate(f, line).ok

\* C5: a candidate the validation function rejects is not stored, the
\* function's message is printed and the same field is prompted again; a
\* candidate it accepts is stored as the response on that attempt.
C5_ValidationContract ==
    [][(ipc = "prompt" /\ nLines' # nLines /\ Validated(inputs[cur], iout'[1].s)) =>
          LET f == inputs[cur]
              line == iout'[1].s
              verdict == ValidationResult(f.validation, Candidate(f, line).val)
          IN  IF Truthy(verdict)
              THEN /\ ipc' = "prompt"
                   /\ cur' = cur
                   /\ inputs' = inputs
                   /\ iout' = <<InputEv(line),
                                PrintEv(settings["ERROR_COLOUR"].s \o verdict.s \o RESET_ALL)>>
              ELSE DictGet(inputs', f.name).response = Candidate(f, line).val]_vars

\* C6: send raises for no line the user types: it raises only at a NUMBER
\* field whose subtype is neither NUM_INT nor NUM_FLOAT.
C6_UserInputNeverRaises ==
    (ipc = "raised" /\ cur > 0) =>
        /\ inputs[cur].type = "NUMBER"
        /\ inputs[cur].numtype \notin {"NUM_INT", "NUM_FLOAT"}

(***************************************************************************)
(* Properties of the registry, checked under SpecSettings.                 *)
(***************************************************************************)
\* Python's ==: numbers compare by value across bool, int and float.
PyEq(a, b) ==
    LET num == {"bool", "int", "float"}
        tenths(v) == IF v.t = "float" THEN v.n ELSE 10 * v.n
    IN  IF a.t \in num /\ b.t \in num THEN tenths(a) = tenths(b) ELSE a = b

\* A read that directly follows an accepted write of the same key.
ReadAfterWrite == impl = "Form" /\ lastCall.op = "read" /\ lastCall.prev

\* What a key holds after an accepted write of v.
StoredFor(key, v) ==
    CASE key \in {"HEADER", "SEPARATOR"} -> PyStr(v.s \o RESET_ALL)
      [] key = "OPTIONS_TEXT" ->
            IF IsStr(v) /\ v.s # <<>> THEN PyStr(v.s \o RESET_ALL) ELSE PyNone
      [] key = "CLEAN_FAILED_RESPONSES" -> IF Truthy(v) THEN v ELSE PyInt(0)
      [] OTHER -> v

\* C7, as stated: getSetting(key) directly after an accepted
\* editSetting(key, v) returns v.
C7_ReadReturnsWritten == ReadAfterWrite => PyEq(lastCall.ret, lastCall.val)

\* C7, amended: getSetting(key) directly after an accepted editSetting(key, v)
\* returns the value stored for v: v followed by Style.RESET_ALL for HEADER,
\* SEPARATOR and a non-empty OPTIONS_TEXT, None for any other OPTIONS_TEXT,
\* 0 for a falsy CLEAN_FAILED_RESPONSES, and v itself in every other case.
C7_ReadReturnsStored ==
    ReadAfterWrite =>
        /\ lastCall.err = "none"
        /\ lastCall.ret = StoredFor(lastCall.key, lastCall.val)
        /\ lastCall.ret = settings[lastCall.key]

\* A HEADER written as "h" is read back with the reset sequence appended.
C7_Witness ==
    /\ ReadAfterWrite
    /\ lastCall.key = "HEADER"
    /\ lastCall.val = PyStr(<<"h">>)
    /\ lastCall.ret = PyStr(<<"h">> \o RESET_ALL)

\* The calls the registry must reject.  In src/FormSettings.py a newVal of
\* None is the omitted argument: the stored value is validated in its place.
MustReject(call) ==
    IF impl = "Form"
    THEN \/ call.key \notin Setting
         \/ /\ call.op = "write"
            /\ call.key \in {"CLEAR_FORM_AFTER_ACTION", "CLEAR_FORM_AFTER_FORM"}
            /\ ~IsBool(call.val)
         \/ /\ call.op = "write"
            /\ call.key = "DEFAULT_CALLBACK"
            /\ ~Callable(call.val)
    ELSE /\ call.op = "write"
         /\ \/ call.key \notin LegacySetting
            \/ /\ call.key \in {"clear_form_after_action", "clear_form_after_form"}
               /\ call.val # PyNone
               /\ ~IsBool(call.val)
            \/ /\ call.key = "default_callback"
               /\ call.val # PyNone
               /\ ~Callable(call.val)

C9_ThresholdNonNegative ==
    impl = "Form" =>
        /\ IsInt(settings["CLEAN_FAILED_RESPONSES"])
        /\ settings["CLEAN_FAILED_RESPONSES"].n >= 0

(***************************************************************************)
(* Further properties of InputForm, checked under SpecInput.               *)
(***************************************************************************)
\* A step of send that reads a line at the prompt of a field.
ReadsLine == ipc = "prompt" /\ nLines' # nLines

\* The line is not empty and float() makes a number of it that is not nan.
ParsesAsNumber(line) ==
    /\ line # <<>>
    /\ ParseFloat(line).ok
    /\ ParseFloat(line).val # PyNan

\* The validation function of the field, if it has one, rejects the value.
Rejects(f, value) ==
    Truthy(f.validation) /\ Truthy(ValidationResult(f.validation, value))

\* An integer nearest to x, a float in tenths.
NearestInteger(v, x) ==
    /\ v.t = "int"
    /\ x # PyInf
    /\ 10 * v.n - x.n <= 5
    /\ x.n - 10 * v.n <= 5

\* C11: at a NUMBER field of subtype NUM_INT or NUM_FLOAT, a line that is not
\* empty and is no number prints the numeric-format error, stores nothing
\* and prompts again; a line that is a number is stored as the response,
\* unless its validation rejects it: rounded to a nearest integer for NUM_INT,
\* as parsed for NUM_FLOAT.
C11_NumberCoercion ==
    [][(/\ ReadsLine
        /\ inputs[cur].type = "NUMBER"
        /\ inputs[cur].numtype \in {"NUM_INT", "NUM_FLOAT"}
        /\ iout'[1].s # <<>>) =>
          LET f == inputs[cur]
              line == iout'[1].s
              x == ParseFloat(line).val
              response == DictGet(inputs', f.name).response
          IN  IF ~ParsesAsNumber(line)
              THEN /\ ipc' = "prompt"
                   /\ cur' = cur
                   /\ inputs' = inputs
                   /\ iout' = <<InputEv(line),
                                PrintEv(settings["ERROR_COLOUR"].s \o VALID_NUMBER
                                        \o RESET_ALL)>>
              ELSE IF f.numtype = "NUM_FLOAT"
              THEN Rejects(f, x) \/ (ipc' # "raised" /\ response = x)
              ELSE \/ x # PyInf /\ Rejects(f, PyInt(Round(x.n)))
                   \/ ipc' # "raised" /\ NearestInteger(response, x)]_vars

\* C12: at a BOOL, NUMBER or TEXT field whose default is not None, the empty
\* line stores the default itself as the response and ends the field's loop:
\* nothing is printed, send does not raise, and the prompt that follows, if
\* any, is that of a later field.
C12_EmptyLineTakesDefault ==
    [][(ReadsLine /\ iout'[1].s = <<>> /\ inputs[cur].default # PyNone) =>
          /\ inputs[cur].type \in {"BOOL", "NUMBER", "TEXT"}
          /\ DictGet(inputs', inputs[cur].name).response = inputs[cur].default
          /\ ipc' \in {"prompt", "returned"}
          /\ ipc' = "prompt" => cur' > cur
          /\ \A i \in DOMAIN iout' :
                iout'[i].e = "print" =>
                    iout'[i].s \notin {settings["ERROR_COLOUR"].s \o m \o RESET_ALL :
                                         m \in {VALID_NUMBER, BOOL_MESSAGE, REQUIRED}}]_vars

\* A TEXT field took the empty default, which its validation would reject.
C12_Witness ==
    /\ ipc = "returned"
    /\ iout[1] = InputEv(<<>>)
    /\ Len(result) = 1
    /\ result[1].type = "TEXT"
    /\ Truthy(result[1].validation)
    /\ Truthy(ValidationResult(result[1].validation, result[1].default))
    /\ result[1].response = PyStr(<<>>)

\* C13: at a BOOL field the line is compared in lower case: y, yes and true
\* store True, n, no and false store False, and the next prompt is a later
\* field's; without a default every other line, the empty one too, prints
\* the invalid-input message, stores nothing and repeats the prompt, so the
\* response such a field gets from send is a boolean.
C13_BoolTokens ==
    [][(ReadsLine /\ inputs[cur].type = "BOOL") =>
          LET f == inputs[cur]
              line == iout'[1].s
              token == ToLower(line)
              response == DictGet(inputs', f.name).response
              stored(b) == /\ response = PyBool(b)
                           /\ ipc' \in {"prompt", "returned"}
                           /\ ipc' = "prompt" => cur' > cur
          IN  IF token \in {<<"y">>, <<"y", "e", "s">>, <<"t", "r", "u", "e">>}
              THEN stored(TRUE)
              ELSE IF token \in {<<"n">>, <<"n", "o">>, <<"f", "a", "l", "s", "e">>}
              THEN stored(FALSE)
              ELSE f.default = PyNone =>
                     /\ ipc' = "prompt"
                     /\ cur' = cur
                     /\ inputs' = inputs
                     /\ iout' = <<InputEv(line),
                                  PrintEv(settings["ERROR_COLOUR"].s \o BOOL_MESSAGE
                                          \o RESET_ALL)>>]_vars

\* "Y" was typed at a BOOL field without default, and send returned True.
C13_Witness ==
    /\ ipc = "returned"
    /\ iout[1] = InputEv(<<"Y">>)
    /\ Len(result) = 1
    /\ result[1].type = "BOOL"
    /\ result[1].default = PyNone
    /\ result[1].response = PyBool(TRUE)

\* The names of a sequence of entries.
NamesOf(entries) == {entries[i].name : i \in DOMAIN entries}

\* C14: what send returns has no key with the marker in it, and its keys are
\* the names of the fields of the form, the entries that are no separators.
C14_NoSeparatorInResult ==
    [][ipc' = "returned" =>
          /\ \A i \in DOMAIN result' : ~Contains(SEP, result'[i].name)
          /\ NamesOf(result') = {n \in NamesOf(inputs) : ~Contains(SEP, n)}
          /\ Cardinality(NamesOf(result')) = Len(result')]_vars

\* A form of one separator and one field has returned the field alone.
C14_Witness ==
    /\ ipc = "returned"
    /\ inputSeparatorCount = 1
    /\ nRegs = 2
    /\ Len(result) = 1
    /\ result[1].name = NameT

\* What a mapping of entries holds under the key of entry e: the data of e.
ValueOf(e) == [k \in (DOMAIN e) \ {"name"} |-> e[k]]

\* The value is of the type of the field: a string, a number or a boolean.
Typed(type, v) ==
    CASE type = "TEXT" -> v.t = "str"
      [] type = "NUMBER" -> v.t \in {"int", "float"}
      [] type = "BOOL" -> v.t = "bool"
      [] OTHER -> FALSE

\* C15, as stated: what send returns holds, under each field's name, the
\* response of the field.
C15_ResultHoldsResponses ==
    ipc = "returned" =>
        \A i \in DOMAIN result : ValueOf(result[i]) = result[i].response

\* C15, amended: what send returns holds, under each field's name, the data
\* of the field, and the response in that data is the typed value accepted
\* for the field: a line that is accepted is stored in the data of the field
\* that was prompted and changes the data of no other field.
C15_ResultHoldsEntries ==
    [][/\ ReadsLine =>
            /\ \A i \in DOMAIN inputs :
                  (i # cur /\ ~Contains(SEP, inputs[i].name)) =>
                      DictGet(inputs', inputs[i].name) = inputs[i]
            /\ ValueOf(DictGet(inputs', inputs[cur].name)) =
                  [ValueOf(inputs[cur]) EXCEPT
                      !.response = IF (ipc' = "prompt" /\ cur' = cur) \/ ipc' = "raised"
                                   THEN @
                                   ELSE FieldAttempt(inputs[cur], iout'[1].s,
                                                     settings["ERROR_COLOUR"]).value]
       /\ ipc' = "returned" =>
            /\ result' = inputs'
            /\ \A i \in DOMAIN result' :
                  Typed(result'[i].type, ValueOf(result'[i]).response)]_vars

\* A text and a boolean were accepted, and send returned the two entries.
C15_Witness ==
    /\ ipc = "returned"
    /\ Len(result) = 2
    /\ result[1].response = PyStr(<<"x">>)
    /\ result[2].response = PyBool(TRUE)
    /\ result[2].type = "BOOL"

(***************************************************************************)
(* Further properties of OptionForm, checked under SpecOption.             *)
(***************************************************************************)
\* C16: once the choice is made, send clears the display if
\* CLEAR_FORM_AFTER_FORM is true, then calls DEFAULT_CALLBACK if one is set,
\* then calls the callback of the chosen option, each once and in this order;
\* the option's callback gets the form when it declares one parameter and no
\* argument otherwise.
C16_DispatchOrder ==
    pc = "returned" =>
        LET callback == DictGet(options, chosen_option.s).cb
            clearing == IF settings["CLEAR_FORM_AFTER_FORM"] = PyBool(TRUE)
                        THEN <<ClearEv>> ELSE <<>>
            default == IF settings["DEFAULT_CALLBACK"] # PyNone
                       THEN <<CallEv(DEFAULT_CALLBACK_OWNER, settings["DEFAULT_CALLBACK"], 0)>>
                       ELSE <<>>
            own == <<CallEv(chosen_option.s, callback, IF callback.n = 1 THEN 1 ELSE 0)>>
        IN  /\ HasLine
            /\ SubSeq(out, 2, Len(out)) = clearing \o default \o own

\* The display was cleared, DEFAULT_CALLBACK called, then the callback of B
\* with the form as its argument.
C16_Witness ==
    /\ pc = "returned"
    /\ Len(out) = 4
    /\ out[2] = ClearEv
    /\ out[3].s = DEFAULT_CALLBACK_OWNER
    /\ out[4] = CallEv(NameB, PyFn(<<"b">>, 1), 1)


\* A step of registerTextInput, registerNumberInput or registerBoolInput.
Registers ==
    /\ nRegs' # nRegs
    /\ lastReg'.op \in {"registerTextInput", "registerNumberInput", "registerBoolInput"}

\* C17: a register call of InputForm fails with an error when the name contains "SEPARATOR", and fails when a validation function is supplied that does not take exactly one parameter, so that no field ever holds such a function; a failed registration leaves the field collection unchanged.
C17_RegistrationGuard ==
    [][Registers =>
        /\ Contains(SEP, lastReg'.name) => lastReg'.err # "none"
        /\ \A i \in DOMAIN inputs' :
            Truthy(inputs'[i].validation) => TakesOne(inputs'[i].validation)
        /\ lastReg'.err # "none" => inputs' = inputs]_vars


\* C18: addOption rejects a callback whose parameter count is neither 0 nor 1, so no option of the form holds such a callback and send never dispatches to one.
C18_CallbackArityChecked ==
    /\ \A i \in DOMAIN options :
        ~Contains(SEP, options[i].name) => options[i].cb.n \in {0, 1}
    /\ \A i \in OptionCalls : out[i].v.n \in {0, 1}


\* A step of send that reads a non-empty line that is not an integer.
ReadsNonInteger ==
    /\ pc = "prompt"
    /\ nInputs' # nInputs
    /\ out'[1].s # <<>>
    /\ ~ParseInt(out'[1].s).ok

\* C19: a non-empty line that does not parse as an integer is never accepted as a choice, with or without a default option: it sets the "not a valid number" error, counts as one more invalid line, calls no callback, and the prompt repeats.
C19_NonIntegerLineRejected ==
    [][ReadsNonInteger =>
        /\ pc' = "prompt"
        /\ invalids' = invalids + 1
        /\ IsStr(error') /\ Contains(VALID_NUMBER, error'.s)
        /\ \A i \in DOMAIN out' : out'[i].e # "call"]_vars


\* C20: with CLEAN_FAILED_RESPONSES = 0 the failure reset is disabled: send renders the form once, and an invalid line, the first one included, is followed by no clearing and no rendering, however many invalid lines there are; invalid counts them all.
C20_ThresholdZeroDisabled ==
    (settings["CLEAN_FAILED_RESPONSES"] = PyInt(0) /\ pc # "idle") =>
        /\ renders = 1
        /\ pc = "prompt" =>
              /\ invalid = PyInt(invalids)
              /\ HasLine => \A i \in DOMAIN out : out[i] \notin {ClearEv, RenderEv}

\* With threshold 0, every line of a send was invalid and the form was rendered once.
C20_Witness ==
    /\ settings["CLEAN_FAILED_RESPONSES"] = PyInt(0)
    /\ pc = "prompt"
    /\ nInputs = MaxInputs
    /\ invalids = MaxInputs
    /\ invalid = PyInt(MaxInputs)
    /\ renders = 1
    /\ HasLine
    /\ \A i \in DOMAIN out : out[i] \notin {ClearEv, RenderEv}


\* The message of the attempt on the line read last, as send displays it.
ErrorOf(line) ==
    settings["ERROR_COLOUR"].s
        \o (IF ParseInt(line).ok THEN INVALID_CHOICE ELSE VALID_NUMBER) \o RESET_ALL

\* C21: after an invalid attempt the error message of that attempt is displayed before the next line is read, and it is the last thing displayed; when the attempt triggers a restart, the message is passed to the restarted send and displayed after the clearing and the redrawing of the form.
C21_ErrorShownBeforeNextInput ==
    (pc = "prompt" /\ HasLine) =>
        /\ error = PyStr(ErrorOf(LastLine))
        /\ out[Len(out)] = PrintEv(ErrorOf(LastLine))
        /\ {i \in DOMAIN out : out[i].e = "print"} = {Len(out)}

\* The message of an invalid line that triggered a restart, shown after the form is drawn again.
C21_Witness ==
    /\ pc = "prompt"
    /\ HasLine
    /\ LastLine = <<"a">>
    /\ renders = 2
    /\ Len(out) = 5
    /\ out[2] = ClearEv
    /\ out[3] = RenderEv
    /\ out[4].e = "septext"
    /\ out[5] = PrintEv(ErrorOf(<<"a">>))


\* A step of OptionForm.send: its start, or a line read at its prompt.
SendStep == pc' # "idle"

\* What a rendering of the form shows of its entries.
Drawn(evs) == SelectSeq(evs, LAMBDA e : e.e \in {"render", "septext"})

\* C22: send does not change the form: no step of it, over invalid lines and restarts, changes the entries, their order, the default option or the separator counter; a start or restart begins with no choice and no invalid attempt and draws and numbers the entries as they are, so successive sends present the same menu.
C22_SendLeavesFormUnchanged ==
    [][SendStep =>
        /\ UNCHANGED <<options, default_option, separatorCount>>
        /\ (renders' # renders /\ pc' = "prompt") =>
              /\ Drawn(out') = Render(options).out
              /\ optionsLocal' = Selectable(options)
              /\ choice' = PyNone
              /\ invalid' = PyInt(0)]_vars

\* A send that restarted once and returned, on a form with a separator and a default option.
C22_Witness ==
    /\ pc = "returned"
    /\ renders = 2
    /\ Len(options) = 3
    /\ separatorCount = 1
    /\ default_option # PyNone


\* The fields of the form after entry i, by position.
FieldsAfter(i) == {j \in DOMAIN inputs : j > i /\ ~Contains(SEP, inputs[j].name)}
First(S) == CHOOSE j \in S : \A k \in S : j <= k

\* C23: send prompts the fields in insertion order; when a line is accepted for a field, its value is the field's response, then the display is cleared if CLEAR_FORM_AFTER_ACTION is true, then the field's callback, if any, is called, with the form when it declares one parameter; only after that come the separators and the prompt of the next field, or the end of send.
C23_FieldEventOrder ==
    [][/\ (InputQuiescent /\ ipc' = "prompt") =>
              FieldsAfter(0) # {} /\ cur' = First(FieldsAfter(0))
       /\ (ReadsLine /\ FieldAttempt(inputs[cur], iout'[1].s, settings["ERROR_COLOUR"]).kind = "accept") =>
              LET f == inputs[cur]
                  a == FieldAttempt(f, iout'[1].s, settings["ERROR_COLOUR"])
                  clearing == IF settings["CLEAR_FORM_AFTER_ACTION"] = PyBool(TRUE)
                              THEN <<ClearEv>> ELSE <<>>
                  calling == IF f.callback # PyNone
                             THEN <<CallEv(f.name, f.callback, IF f.callback.n = 1 THEN 1 ELSE 0)>>
                             ELSE <<>>
                  head == <<InputEv(iout'[1].s)>> \o clearing \o calling
              IN  /\ DictGet(inputs', f.name).response = a.value
                  /\ Len(iout') >= Len(head)
                  /\ SubSeq(iout', 1, Len(head)) = head
                  /\ IF FieldsAfter(cur) # {}
                     THEN /\ ipc' = "prompt"
                          /\ cur' = First(FieldsAfter(cur))
                          /\ \A i \in DOMAIN iout' : i > Len(head) => iout'[i].e = "print"
                     ELSE ipc' = "returned"]_vars

\* The first field took "x": the display was cleared, its callback called with the form, and the second field is at its prompt.
C23_Witness ==
    /\ ipc = "prompt"
    /\ cur = 2
    /\ inputs[1].response = PyStr(<<"x">>)
    /\ iout = <<InputEv(<<"x">>), ClearEv, CallEv(NameT, PyFn(<<"t">>, 1), 1)>>


\* The message send prints when a line is not a number.
NumberFormatMessage == settings["ERROR_COLOUR"].s \o VALID_NUMBER \o RESET_ALL

\* C24: when a NUMBER field whose subtype is neither NUM_INT nor NUM_FLOAT reads a non-empty line that parses as a number, send raises a ValueError to the caller whose message names the subtype and is not the number-format message; nothing is printed, the prompt does not repeat, and the field's response stays unset.
C24_UnknownSubtypeRaises ==
    [][(/\ ReadsLine
        /\ inputs[cur].type = "NUMBER"
        /\ inputs[cur].numtype \notin {"NUM_INT", "NUM_FLOAT"}
        /\ iout'[1].s # <<>>
        /\ ParseFloat(iout'[1].s).ok) =>
            /\ ipc' = "raised"
            /\ raised'.err = "ValueError"
            /\ raised'.msg # <<>>
            /\ raised'.msg # NumberFormatMessage
            /\ \A i \in DOMAIN raised'.msg : raised'.msg[i] # VALID_NUMBER[1]
            /\ iout' = <<InputEv(iout'[1].s)>>
            /\ inputs' = inputs
            /\ inputs[cur].response = PyNone]_vars

\* The line "5" on a field registered with the subtype "HEX".
C24_Witness ==
    /\ ipc = "raised"
    /\ cur > 0
    /\ inputs[cur].numtype = "HEX"
    /\ inputs[cur].response = PyNone
    /\ iout = <<InputEv(<<"5">>)>>
    /\ raised = Exc("ValueError", settings["ERROR_COLOUR"].s \o NumConstMessage("HEX") \o RESET_ALL)


\* C25: when InputForm.send returns, the separator entries are gone from the form itself, the mapping returned being the form's own collection, and separatorCount keeps its value; a send that follows prints no separator before its first prompt; and a separator added afterwards gets the key of the next counter value, which is the key of no entry of the form.
C25_SendPopsSeparators ==
    [][/\ ipc' = "returned" =>
              /\ inputs' = result'
              /\ \A i \in DOMAIN inputs' : ~Contains(SEP, inputs'[i].name)
              /\ Len(inputs') = Cardinality(FieldsAfter(0))
              /\ inputSeparatorCount' = inputSeparatorCount
       /\ (ipc = "returned" /\ ipc' = "prompt") =>
              /\ cur' = 1
              /\ iout' = <<RenderEv>>
       /\ (nRegs' # nRegs /\ lastReg'.op = "addSeparator") =>
              /\ inputSeparatorCount' = inputSeparatorCount + 1
              /\ lastReg'.name = SEP \o IntToStr(inputSeparatorCount + 1)
              /\ lastReg'.name \notin NamesOf(inputs)
              /\ Len(inputs') = Len(inputs) + 1
              /\ inputs'[Len(inputs')].name = lastReg'.name]_vars

\* A separator added after a send that popped the first one: the form holds the second alone.
C25_Witness ==
    /\ lastReg.op = "addSeparator"
    /\ inputSeparatorCount = 2
    /\ Len(inputs) = 1
    /\ inputs[1].name = SEP \o <<"2">>


\* The callbacks a caller passes to addOption.
CallerCallbacks == {c.cb : c \in {a \in AddCalls : Callable(a.cb)}}

\* C26: a form without a selectable option, empty or holding only entries that send treats as separators, never reaches dispatch: send stays at its prompt and never returns, every line it reads, the empty one included, counts as invalid, no callback passed to addOption is ever called, and with a threshold T > 0 the form is drawn again after every T lines.
C26_NoSelectableNeverDispatches ==
    (pc # "idle" /\ Selectable(options) = <<>>) =>
        LET T == settings["CLEAN_FAILED_RESPONSES"].n
        IN  /\ pc = "prompt"
            /\ chosen_option = PyNone
            /\ invalids = nInputs
            /\ \A i \in DOMAIN out : out[i].e # "call" /\ out[i].v \notin CallerCallbacks
            /\ renders = 1 + (IF T > 0 THEN invalids \div T ELSE 0)

====
